---- MODULE Spec2Model ----
(***************************************************************************)
(* Model of receipt_organizer: the per-file pipeline of cli.py             *)
(* (process_single_file, process_files), the name builder, conflict       *)
(* resolver and rename executor of renamer.py, over a small file system.   *)
(* Strings are TLA+ strings; a character is a string of length one.        *)
(***************************************************************************)
EXTENDS Integers, Sequences, FiniteSets, TLC

(* ---------------------------------------------------------------------- *)
(* Bounds of the model                                                     *)
(* ---------------------------------------------------------------------- *)

\* largest number of entries the scanned directory tree starts with
MaxFiles == 2

\* largest worker count the operator may request (--workers)
MaxWorkers == 2

(* ---------------------------------------------------------------------- *)
(* Characters and strings                                                  *)
(* ---------------------------------------------------------------------- *)

None == "<None>"

Lowers == "abcdefghijklmnopqrstuvwxyz"

Uppers == "ABCDEFGHIJKLMNOPQRSTUVWXYZ"

Digits == "0123456789"

Char(s, i) == SubSeq(s, i, i)

\* position of character c in string s, 0 when absent
IndexOf[c \in STRING, s \in STRING] ==
  IF \E i \in 1..Len(s) : Char(s, i) = c
  THEN CHOOSE i \in 1..Len(s) : Char(s, i) = c /\ \A j \in 1..(i - 1) : Char(s, j) # c
  ELSE 0

IsDigit(c) == IndexOf[c, Digits] > 0

\* \w of the re module, over the model's alphabet
IsWord(c) == IndexOf[c, Lowers] > 0 \/ IndexOf[c, Uppers] > 0 \/ IsDigit(c) \/ c = "_"

\* \s of the re module and the characters str.strip() / str.split() remove
IsSpace(c) == c = " "

upper(c) == IF IndexOf[c, Lowers] > 0 THEN Char(Uppers, IndexOf[c, Lowers]) ELSE c

lower(c) == IF IndexOf[c, Uppers] > 0 THEN Char(Lowers, IndexOf[c, Uppers]) ELSE c

\* str.lower(): every character on its own, the two halves of the string
\* one after the other
lower_str[s \in STRING] ==
  IF Len(s) <= 1 THEN lower(s)
  ELSE lower_str[SubSeq(s, 1, Len(s) \div 2)]
         \o lower_str[SubSeq(s, Len(s) \div 2 + 1, Len(s))]

lstrip[s \in STRING] == IF s # "" /\ IsSpace(Head(s)) THEN lstrip[Tail(s)] ELSE s

rstrip[s \in STRING] ==
  IF s # "" /\ IsSpace(Char(s, Len(s))) THEN rstrip[SubSeq(s, 1, Len(s) - 1)] ELSE s

strip(s) == rstrip[lstrip[s]]

\* str.capitalize(): first character upper case, the rest lower case
capitalize(w) == IF w = "" THEN "" ELSE upper(Head(w)) \o lower_str[Tail(w)]

\* re.sub(r"[^\w\s]", "", text)
remove_special[s \in STRING] ==
  IF s = "" THEN ""
  ELSE IF Len(s) = 1 THEN (IF IsWord(s) \/ IsSpace(s) THEN s ELSE "")
  ELSE remove_special[SubSeq(s, 1, Len(s) \div 2)]
         \o remove_special[SubSeq(s, Len(s) \div 2 + 1, Len(s))]

\* "".join(word.capitalize() for word in text.split()); cur is the start
\* of the word being read, which goes on up to the next space of s
join_capitalized[s \in STRING, cur \in STRING] ==
  IF IndexOf[" ", s] = 0 THEN capitalize(cur \o s)
  ELSE capitalize(cur \o SubSeq(s, 1, IndexOf[" ", s] - 1))
         \o join_capitalized[SubSeq(s, IndexOf[" ", s] + 1, Len(s)), ""]

(* ---------------------------------------------------------------------- *)
(* renamer.py: the name builder                                            *)
(* ---------------------------------------------------------------------- *)

PLACEHOLDER_UNKNOWN == "UNKNOWN"

PLACEHOLDER_REVIEW == "REVIEW"

MAX_FIELD_LENGTH == 30

MAX_CONFLICT_ATTEMPTS == 1000

\* sanitize without the placeholder for a text left empty
sanitize_keeping_empty(text) ==
  IF text = None \/ text = "" THEN PLACEHOLDER_UNKNOWN
  ELSE LET joined == join_capitalized[remove_special[text], ""]
       IN IF Len(joined) > MAX_FIELD_LENGTH
          THEN SubSeq(joined, 1, MAX_FIELD_LENGTH) ELSE joined

sanitize(text) ==
  IF text = None \/ text = "" THEN PLACEHOLDER_UNKNOWN
  ELSE LET joined == join_capitalized[remove_special[text], ""]
           cut == IF Len(joined) > MAX_FIELD_LENGTH
                  THEN SubSeq(joined, 1, MAX_FIELD_LENGTH) ELSE joined
       IN IF cut # "" THEN cut ELSE PLACEHOLDER_UNKNOWN

\* two decimal digits of a number of cents
TwoDigits(n) == IF n < 10 THEN "0" \o ToString(n) ELSE ToString(n)

\* an amount is <<>> (None) or <<c>>, c the number of hundredths
format_amount(amount, currency) ==
  IF amount = <<>> THEN PLACEHOLDER_UNKNOWN
  ELSE LET c == amount[1]
       IN IF c % 100 = 0 THEN currency \o ToString(c \div 100)
          ELSE currency \o ToString(c \div 100) \o "." \o TwoDigits(c % 100)

\* re.match(r"\d{4}-\d{2}-\d{2}", date): the pattern is matched at the
\* start of the string only
date_matches(date) ==
  /\ Len(date) >= 10
  /\ \A i \in {1, 2, 3, 4, 6, 7, 9, 10} : IsDigit(Char(date, i))
  /\ Char(date, 5) = "-"
  /\ Char(date, 8) = "-"

generate_new_name(data, original_ext) ==
  LET date_part == IF data.date # None /\ data.date # "" /\ date_matches(data.date)
                   THEN data.date ELSE PLACEHOLDER_REVIEW
      provider == sanitize(data.provider)
      patient == sanitize(data.patient)
      amount == format_amount(data.amount, data.currency)
  IN date_part \o "_" \o provider \o "_" \o patient \o "_" \o amount \o original_ext

(* ---------------------------------------------------------------------- *)
(* Paths: a path is the sequence of its parts below the file system root,  *)
(* as pathlib keeps it (no empty part, no "." part)                        *)
(* ---------------------------------------------------------------------- *)

NoEnt == <<"<ENOENT>">>

\* the part of a path string when it is one: not empty and not "."
part(text) == IF text = "" \/ text = "." THEN <<>> ELSE <<text>>

\* parts of a relative path string, split at "/"; cur is the start of the
\* part being read, which goes on up to the next "/" of s
parts_of[s \in STRING, cur \in STRING] ==
  IF IndexOf["/", s] = 0 THEN part(cur \o s)
  ELSE part(cur \o SubSeq(s, 1, IndexOf["/", s] - 1))
         \o parts_of[SubSeq(s, IndexOf["/", s] + 1, Len(s)), ""]

\* directory / filename: an absolute filename replaces the directory
joinpath[directory \in Seq(STRING), filename \in STRING] ==
  IF filename # "" /\ Head(filename) = "/" THEN parts_of[filename, ""]
  ELSE directory \o parts_of[filename, ""]

parent(path) == IF path = <<>> THEN <<>> ELSE SubSeq(path, 1, Len(path) - 1)

name_of[path \in Seq(STRING)] == IF path = <<>> THEN "" ELSE path[Len(path)]

\* 1-based position of the last "." of a name, 0 when there is none
rfind_dot[nm \in STRING, i \in Nat] ==
  IF i = 0 THEN 0 ELSE IF Char(nm, i) = "." THEN i ELSE rfind_dot[nm, i - 1]

\* PurePath.suffix
suffix_of[path \in Seq(STRING)] ==
  LET nm == name_of[path]
      i == rfind_dot[nm, Len(nm)]
  IN IF 1 < i /\ i < Len(nm) THEN SubSeq(nm, i, Len(nm)) ELSE ""

\* PurePath.stem
stem_of[path \in Seq(STRING)] ==
  LET nm == name_of[path]
      i == rfind_dot[nm, Len(nm)]
  IN IF 1 < i /\ i < Len(nm) THEN SubSeq(nm, 1, i - 1) ELSE nm

\* Path.resolve() without symbolic links: ".." removes the part before it
resolve_from[cur \in Seq(STRING), rest \in Seq(STRING)] ==
  IF rest = <<>> THEN cur
  ELSE IF Head(rest) = ".." THEN resolve_from[parent(cur), Tail(rest)]
  ELSE resolve_from[cur \o <<Head(rest)>>, Tail(rest)]

resolve(path) == resolve_from[<<>>, path]

(* ---------------------------------------------------------------------- *)
(* The file system: the set of paths of its files, below fixed directories *)
(* ---------------------------------------------------------------------- *)

Root == <<"r">>

Dirs == {<<>>, Root, Root \o <<"s">>}

\* the operating system's lookup of a path: every part but the last must
\* be an existing directory
lookup[cur \in Seq(STRING), rest \in Seq(STRING)] ==
  IF rest = <<>> THEN cur
  ELSE IF cur \notin Dirs THEN NoEnt
  ELSE IF Head(rest) = ".." THEN lookup[parent(cur), Tail(rest)]
  ELSE lookup[cur \o <<Head(rest)>>, Tail(rest)]

\* Path.exists()
exists[files \in SUBSET Seq(STRING), path \in Seq(STRING)] ==
  LET p == lookup[<<>>, path] IN p # NoEnt /\ (p \in files \/ p \in Dirs)

\* Path.rename(): the error raised (None when there is none), the new set
\* of files and, in a tuple, the path returned.  rename(2) replaces an
\* existing destination file, and refuses a destination that ends in "..".
os_rename(files, source, target) ==
  LET dst == lookup[<<>>, target]
  IN IF source \notin files \/ dst = NoEnt
     THEN [error |-> "FileNotFoundError", files |-> files, new_path |-> <<>>]
     ELSE IF name_of[target] = ".."
     THEN [error |-> "OSError", files |-> files, new_path |-> <<>>]
     ELSE IF dst \in Dirs
     THEN [error |-> "IsADirectoryError", files |-> files, new_path |-> <<>>]
     ELSE [error |-> None, files |-> (files \ {source}) \cup {dst},
           new_path |-> <<target>>]

(* ---------------------------------------------------------------------- *)
(* renamer.py: conflict resolver and rename executor                       *)
(* ---------------------------------------------------------------------- *)

RuntimeError == "<RuntimeError>"

ValueError == "<ValueError>"

\* the for loop of resolve_conflict stopped at its first counter, without
\* the probe of the directory
find_suffix_unprobed(files, directory, stem, ext) == stem \o "_1" \o ext

\* the for loop of resolve_conflict: the name of the first counter of
\* 1 .. MAX_CONFLICT_ATTEMPTS whose name does not exist, RuntimeError when
\* every one of them exists
find_suffix(files, directory, stem, ext) ==
  LET new_name(counter) == stem \o "_" \o ToString(counter) \o ext
      taken(counter) == exists[files, joinpath[directory, new_name(counter)]]
  IN IF \A counter \in 1..MAX_CONFLICT_ATTEMPTS : taken(counter) THEN RuntimeError
     ELSE new_name(CHOOSE counter \in 1..MAX_CONFLICT_ATTEMPTS :
                     /\ ~taken(counter)
                     /\ \A earlier \in 1..(counter - 1) : taken(earlier))

\* resolve_conflict without the probe of the directory
resolve_conflict_blind(files, directory, filename) == filename

resolve_conflict(files, directory, filename) ==
  LET target == joinpath[directory, filename]
  IN IF ~exists[files, target] THEN filename
     ELSE find_suffix(files, directory, stem_of[target], suffix_of[target])

\* execute_rename without the comparison of the resolved parents
execute_rename_unchecked(files, source, new_name) ==
  os_rename(files, source, joinpath[parent(source), new_name])

\* the error raised (None when there is none), the new set of files and,
\* in a tuple, the path returned
execute_rename(files, source, new_name) ==
  LET new_path == joinpath[parent(source), new_name]
  IN IF parent(resolve(new_path)) # resolve(parent(source))
     THEN [error |-> ValueError, files |-> files, new_path |-> <<>>]
     ELSE os_rename(files, source, new_path)

(* ---------------------------------------------------------------------- *)
(* processor.py: discovery                                                 *)
(* ---------------------------------------------------------------------- *)

SUPPORTED_EXTENSIONS == {".pdf", ".jpg", ".jpeg", ".png", ".bmp", ".tiff", ".tif"}

upper_str[s \in STRING] ==
  IF Len(s) <= 1 THEN upper(s)
  ELSE upper_str[SubSeq(s, 1, Len(s) \div 2)]
         \o upper_str[SubSeq(s, Len(s) \div 2 + 1, Len(s))]

EndsWith(s, e) == Len(s) >= Len(e) /\ SubSeq(s, Len(s) - Len(e) + 1, Len(s)) = e

\* rglob("*" + ext) and rglob("*" + ext.upper())
IsSupported(path) ==
  \E ext \in SUPPORTED_EXTENSIONS :
    EndsWith(name_of[path], ext) \/ EndsWith(name_of[path], upper_str[ext])

\* The entries the scanned tree may start with, in sorted order.
Candidate == "2024-01-15_CvsPharmacy_JohnDoe_USD45.99.pdf"

Seed ==
  << Root \o <<Candidate>>,
     Root \o <<"a.pdf">>,
     Root \o <<"b.pdf">>,
     Root \o <<"notes.txt">>,
     Root \o <<"s", "c.pdf">> >>

\* the entries of a sorted listing that satisfy Keep, in the same order
SelectInOrder[listing \in Seq(Seq(STRING)), keep \in SUBSET Seq(STRING)] ==
  IF listing = <<>> THEN <<>>
  ELSE (IF Head(listing) \in keep THEN <<Head(listing)>> ELSE <<>>)
         \o SelectInOrder[Tail(listing), keep]

\* sorted(set(files)) of the supported entries below the directory
discover_files(files) ==
  SelectInOrder[Seed, {p \in files : IsSupported(p)}]

(* ---------------------------------------------------------------------- *)
(* Inputs of a run                                                         *)
(* ---------------------------------------------------------------------- *)

SentinelRecord ==
  [date |-> None, provider |-> None, patient |-> None, amount |-> <<>>,
   currency |-> "USD", is_medical_receipt |-> FALSE]

ReceiptRecord ==
  [date |-> "2024-01-15", provider |-> "CVS Pharmacy", patient |-> "John Doe",
   amount |-> <<4599>>, currency |-> "USD", is_medical_receipt |-> TRUE]

NonReceiptRecord == [ReceiptRecord EXCEPT !.is_medical_receipt = FALSE]

TraversalRecord ==
  [date |-> "2024-01-15/../../etc", provider |-> None, patient |-> None,
   amount |-> <<>>, currency |-> "USD", is_medical_receipt |-> TRUE]

\* the ReceiptData values extractor.extract may return (it may also raise)
Records == {SentinelRecord, ReceiptRecord, NonReceiptRecord, TraversalRecord}

\* what the operator may type at the prompt; EOF makes input() raise
EOF == "<EOF>"

Responses == {"", "n", "N", " n ", EOF}

(* ---------------------------------------------------------------------- *)
(* models.py: ReceiptData.from_json.  The decoder covers the JSON texts    *)
(* without backslash escapes, exponents, NaN and Infinity; a value is      *)
(* [ok, pos, kind, text, members]: whether the text decodes, the position  *)
(* after the value, its kind, its lexeme (the content of a string, the     *)
(* digits of a number) and, for an object, its members in order            *)
(* ---------------------------------------------------------------------- *)

Quote == "\""

\* the character at position i, "" outside the string
At(s, i) == IF 1 <= i /\ i <= Len(s) THEN Char(s, i) ELSE ""

\* the first position from j on that holds one of the characters, 0 when
\* none does
first_of(s, j, chars) ==
  IF \E k \in j..Len(s) : At(s, k) \in chars
  THEN CHOOSE k \in j..Len(s) :
         At(s, k) \in chars /\ \A m \in j..(k - 1) : At(s, m) \notin chars
  ELSE 0

\* the position k when it holds a "}", else 0
brace_at(s, k) == IF k > 0 /\ At(s, k) = "}" THEN k ELSE 0

\* the position of the "}" that ends [^{}]*\} from position j on, 0 when
\* a "{" or the end of the text comes first
closing_brace(s, j) == brace_at(s, first_of(s, j, {"{", "}"}))

\* \{[^{}]*\} matches at position i
opens_object(s, i) == At(s, i) = "{" /\ closing_brace(s, i + 1) > 0

\* re.search(r"\{[^{}]*\}", json_str): the leftmost "{" whose next brace is
\* a "}"; <<>> when there is no match, else the matched text in a tuple
search_object(s) ==
  IF \A i \in 1..Len(s) : ~opens_object(s, i) THEN <<>>
  ELSE LET i == CHOOSE i \in 1..Len(s) :
                  opens_object(s, i) /\ \A k \in 1..(i - 1) : ~opens_object(s, k)
       IN <<SubSeq(s, i, closing_brace(s, i + 1))>>

\* the white space json.loads skips (of it, the model's alphabet has " ")
RECURSIVE skip_ws(_, _)
skip_ws(s, i) == IF IsSpace(At(s, i)) THEN skip_ws(s, i + 1) ELSE i

JSONDecodeError == [ok |-> FALSE, pos |-> 0, kind |-> "", text |-> "", members |-> <<>>]

Decoded(pos, kind, text) ==
  [ok |-> TRUE, pos |-> pos, kind |-> kind, text |-> text, members |-> <<>>]

\* the position of the quote that ends a string whose content starts at j,
\* 0 when the string is not terminated
closing_quote(s, j) == first_of(s, j, {Quote})

\* the string between the quote at i and the quote at j
string_until(s, i, j) ==
  IF j = 0 THEN JSONDecodeError
  ELSE Decoded(j + 1, "string", SubSeq(s, i + 1, j - 1))

scan_string(s, i) == string_until(s, i, closing_quote(s, i + 1))

\* the position after the digits that start at i
RECURSIVE skip_digits(_, _)
skip_digits(s, i) == IF IsDigit(At(s, i)) THEN skip_digits(s, i + 1) ELSE i

\* (0|[1-9]\d*) from position first on: the position after it
int_end(s, first) ==
  IF At(s, first) = "0" THEN first + 1 ELSE skip_digits(s, first)

\* (\.\d+)? from position e on: a fraction is taken only when a digit
\* follows the point
frac_end(s, e) ==
  IF At(s, e) = "." /\ IsDigit(At(s, e + 1)) THEN skip_digits(s, e + 1) ELSE e

\* the number that starts at i, whose digits start at first and end before e
number_until(s, i, first, e) ==
  IF e = first THEN JSONDecodeError
  ELSE Decoded(frac_end(s, e), "number", SubSeq(s, i, frac_end(s, e) - 1))

\* -?(0|[1-9]\d*)(\.\d+)?
scan_number(s, i) ==
  LET first == IF At(s, i) = "-" THEN i + 1 ELSE i
  IN number_until(s, i, first, int_end(s, first))

StartsAt(s, i, word) ==
  i + Len(word) - 1 <= Len(s) /\ SubSeq(s, i, i + Len(word) - 1) = word

\* a value that starts at i: a string, a number, true, false, null or an
\* array; an object is decoded by decode_object
RECURSIVE decode_value(_, _)
RECURSIVE decode_items(_, _)
RECURSIVE after_item(_, _)
decode_value(s, i) ==
  IF At(s, i) = Quote THEN scan_string(s, i)
  ELSE IF At(s, i) = "-" \/ IsDigit(At(s, i)) THEN scan_number(s, i)
  ELSE IF StartsAt(s, i, "true") THEN Decoded(i + 4, "true", "true")
  ELSE IF StartsAt(s, i, "false") THEN Decoded(i + 5, "false", "false")
  ELSE IF StartsAt(s, i, "null") THEN Decoded(i + 4, "null", "null")
  ELSE IF At(s, i) = "["
  THEN IF At(s, skip_ws(s, i + 1)) = "]"
       THEN Decoded(skip_ws(s, i + 1) + 1, "array", "")
       ELSE decode_items(s, skip_ws(s, i + 1))
  ELSE JSONDecodeError

\* the items of an array from position i on, up to its "]"
decode_items(s, i) == after_item(s, decode_value(s, i))

\* what follows an item: the "]" of the array, or a "," and the next item
after_item(s, item) ==
  IF ~item.ok THEN JSONDecodeError
  ELSE IF At(s, skip_ws(s, item.pos)) = "]"
  THEN Decoded(skip_ws(s, item.pos) + 1, "array", "")
  ELSE IF At(s, skip_ws(s, item.pos)) = ","
  THEN decode_items(s, skip_ws(s, skip_ws(s, item.pos) + 1))
  ELSE JSONDecodeError

\* the value of the member whose key was scanned: after the key, a ":" and
\* the value
member_value(s, key) ==
  IF ~key.ok \/ At(s, skip_ws(s, key.pos)) # ":" THEN JSONDecodeError
  ELSE decode_value(s, skip_ws(s, skip_ws(s, key.pos) + 1))

\* the members of an object from position i on, up to its "}"
RECURSIVE decode_members(_, _, _)
RECURSIVE after_member(_, _, _)
decode_members(s, i, acc) ==
  LET key == IF At(s, i) = Quote THEN scan_string(s, i) ELSE JSONDecodeError
  IN after_member(s, acc, [key |-> key.text, value |-> member_value(s, key)])

\* what follows a member: the "}" of the object, or a "," and the next
\* member
after_member(s, acc, member) ==
  LET j == skip_ws(s, member.value.pos)
      members == Append(acc, [key |-> member.key, kind |-> member.value.kind,
                              text |-> member.value.text])
  IN IF ~member.value.ok THEN JSONDecodeError
     ELSE IF At(s, j) = "}"
     THEN [ok |-> TRUE, pos |-> j + 1, kind |-> "object", text |-> "",
           members |-> members]
     ELSE IF At(s, j) = "," THEN decode_members(s, skip_ws(s, j + 1), members)
     ELSE JSONDecodeError

decode_object(s, i) ==
  IF At(s, skip_ws(s, i + 1)) = "}"
  THEN [ok |-> TRUE, pos |-> skip_ws(s, i + 1) + 1, kind |-> "object", text |-> "",
        members |-> <<>>]
  ELSE decode_members(s, skip_ws(s, i + 1), <<>>)

\* the value that starts at i
raw_decode(s, i) ==
  IF At(s, i) = "{" THEN decode_object(s, i) ELSE decode_value(s, i)

\* the value when only white space follows it
whole_text(s, value) ==
  IF value.ok /\ skip_ws(s, value.pos) = Len(s) + 1 THEN value
  ELSE JSONDecodeError

\* json.loads(s): one value between white space, and nothing after it
json_loads(s) == whole_text(s, raw_decode(s, skip_ws(s, 1)))

\* the number a string of digits writes
RECURSIVE digits_value(_)
digits_value(d) ==
  IF d = "" THEN 0
  ELSE 10 * digits_value(SubSeq(d, 1, Len(d) - 1)) + (IndexOf[Char(d, Len(d)), Digits] - 1)

\* the amount, in hundredths, of a numeral made of digits and at most one
\* point, whose digits after the second decimal are zeros
hundredths(numeral) ==
  LET dot == IndexOf[".", numeral]
      whole == IF dot = 0 THEN numeral ELSE SubSeq(numeral, 1, dot - 1)
      frac == IF dot = 0 THEN "" ELSE SubSeq(numeral, dot + 1, Len(numeral))
  IN 100 * digits_value(whole) + digits_value(SubSeq(frac \o "00", 1, 2))

\* re.sub(r"[^\d.]", "", text)
RECURSIVE digits_and_points(_)
digits_and_points(s) ==
  IF s = "" THEN ""
  ELSE (IF IsDigit(Head(s)) \/ Head(s) = "." THEN Head(s) ELSE "")
         \o digits_and_points(Tail(s))

RECURSIVE count_char(_, _)
count_char(c, s) ==
  IF s = "" THEN 0 ELSE (IF Head(s) = c THEN 1 ELSE 0) + count_char(c, Tail(s))

\* float(text) of a text of digits and points: <<>> when it raises
\* ValueError (no digit, or more than one point), else the amount in a tuple
float_of(text) ==
  IF count_char(".", text) > 1 \/ Len(text) = count_char(".", text) THEN <<>>
  ELSE <<hundredths(text)>>

\* the value the last member with this key has; <<>> when no member has it
RECURSIVE member_of(_, _)
member_of(members, key) ==
  IF members = <<>> THEN <<>>
  ELSE IF members[Len(members)].key = key THEN <<members[Len(members)]>>
  ELSE member_of(SubSeq(members, 1, Len(members) - 1), key)

\* a str | None field of the record, from the member m that holds it
text_field(m, default) ==
  IF m = <<>> THEN default
  ELSE CASE m[1].kind = "string" -> m[1].text
         [] m[1].kind = "null" -> None

\* cli.py reads is_medical_receipt for its truth value
flag_field(m, default) ==
  IF m = <<>> THEN default
  ELSE CASE m[1].kind = "true" -> TRUE
         [] m[1].kind = "false" -> FALSE
         [] m[1].kind = "null" -> FALSE

\* models.py:42-47: the amount, a number or a string
amount_field(m) ==
  IF m = <<>> THEN <<>>
  ELSE CASE m[1].kind = "number" -> <<hundredths(m[1].text)>>
         [] m[1].kind = "null" -> <<>>
         [] m[1].kind = "string" -> float_of(digits_and_points(m[1].text))

\* models.py:28-30: the matched text, or the whole response
text_to_parse(json_str, json_match) ==
  IF json_match # <<>> THEN json_match[1] ELSE json_str

\* models.py:32-49 on what json.loads returned: the error raised (None when
\* there is none) and, in a tuple, the record returned
record_of(data) ==
  IF ~data.ok THEN [error |-> None, data |-> <<SentinelRecord>>]
  ELSE IF data.kind # "object" THEN [error |-> "AttributeError", data |-> <<>>]
  ELSE [error |-> None,
        data |-> << [date |-> text_field(member_of(data.members, "date"), None),
                     provider |-> text_field(member_of(data.members, "provider"), None),
                     patient |-> text_field(member_of(data.members, "patient"), None),
                     amount |-> amount_field(member_of(data.members, "amount")),
                     currency |-> text_field(member_of(data.members, "currency"), "USD"),
                     is_medical_receipt |->
                       flag_field(member_of(data.members, "is_medical_receipt"), TRUE)] >>]

from_json(json_str) ==
  record_of(json_loads(text_to_parse(json_str, search_object(json_str))))

(* ---------------------------------------------------------------------- *)
(* cli.py: state                                                           *)
(* ---------------------------------------------------------------------- *)

VARIABLES
  fs,        \* the files on disk
  fs0,       \* the files on disk when the run started
  available, \* what extractor.check_available() reports
  dry_run,   \* process_files parameter
  confirm,   \* process_files parameter
  args_workers, \* --workers, as main passes it to process_files
  workers,   \* process_files parameter, overwritten at cli.py:147
  mainpc,    \* position of process_files
  files,     \* the discovered files, in submission order
  pc,        \* position of process_single_file, per submitted file
  image,     \* image_bytes of each submitted file
  result,    \* the ProcessResult of each submitted file
  exception, \* the exception each task's future holds (None when none)
  print_lock, \* 0 when free, else the index of the file whose worker holds it
  counter,   \* counter['done']
  completed, \* the finished futures, in the order as_completed yields them
  results,   \* the list results of process_files
  returned,  \* <<>> or the (processed, skipped, failed) triple returned
  calls,     \* per file, how often each collaborator was called
  renamed_to, \* per file, in a tuple, the path execute_rename returned
  response,  \* per file, what the operator typed (None before the prompt)
  probes,    \* how often extractor.check_available() was called
  printed,   \* the console: the files whose progress line was printed, in order
  fn_op,     \* the function applied to an input on its own ("run": none)
  fn_in,     \* its input
  fn_out     \* in a tuple, its result (<<>> before the call)

vars ==
  << fs, fs0, available, dry_run, confirm, args_workers, workers, mainpc, files,
     pc, image, result, exception, print_lock, counter, completed, results,
     returned, calls, renamed_to, response, probes, printed, fn_op, fn_in,
     fn_out >>

\* the variables of a function applied on its own, which a run leaves alone
fnvars == << fn_op, fn_in, fn_out >>

Unset == "<unset>"

ProcessResult(file_path) ==
  [file_path |-> file_path, data |-> <<>>, new_name |-> None, error |-> None,
   skipped_reason |-> None]

NoCalls ==
  [read |-> 0, extract |-> 0, build |-> 0, probe |-> 0, prompt |-> 0,
   rename |-> 0, inc |-> 0]

Range(seq) == {seq[i] : i \in 1..Len(seq)}

Ids == 1..Len(files)

Terminal(i) == pc[i] \in {"done", "raised"}

\* the files a worker thread is running process_single_file for
Busy == {i \in Ids : pc[i] \notin {"queued", "done", "raised"}}

Init ==
  /\ fs \in {S \in SUBSET Range(Seed) : Cardinality(S) <= MaxFiles}
  /\ fs0 = fs
  /\ available \in BOOLEAN
  /\ dry_run \in BOOLEAN
  /\ confirm \in BOOLEAN
  /\ args_workers \in 1..MaxWorkers
  /\ workers = args_workers
  /\ mainpc = "check"
  /\ files = <<>>
  /\ pc = <<>>
  /\ image = <<>>
  /\ result = <<>>
  /\ exception = <<>>
  /\ print_lock = 0
  /\ counter = 0
  /\ completed = <<>>
  /\ results = <<>>
  /\ returned = <<>>
  /\ calls = <<>>
  /\ renamed_to = <<>>
  /\ response = <<>>
  /\ probes = 0
  /\ printed = <<>>
  /\ fn_op = "run"
  /\ fn_in = <<>>
  /\ fn_out = <<>>

(* ---------------------------------------------------------------------- *)
(* cli.py: process_files                                                   *)
(* ---------------------------------------------------------------------- *)

\* what a run never changes: the arguments of process_files and the
\* answer of the availability probe
params == << fs0, available, dry_run, confirm, args_workers >>

\* r.new_name, r.skipped_reason and r.error are tested for truthiness
Truthy(x) == x # None /\ x # ""

CountIf(rs, field) == Cardinality({k \in 1..Len(rs) : Truthy(rs[k][field])})

\* CheckAvailable without the sys.exit(1) of cli.py:133-135
CheckAvailable_ignoring ==
  /\ mainpc = "check"
  /\ probes' = probes + 1
  /\ mainpc' = "discover"
  /\ UNCHANGED << params, fnvars, printed, fs, workers, files, pc, image, result,
                  exception, print_lock, counter, completed, results, returned,
                  calls, renamed_to, response >>

\* cli.py:131-135: extractor.check_available(); sys.exit(1) when it fails
CheckAvailable ==
  /\ mainpc = "check"
  /\ probes' = probes + 1
  /\ mainpc' = IF available THEN "discover" ELSE "exited"
  /\ UNCHANGED << params, fnvars, printed, fs, workers, files, pc, image, result, exception,
                  print_lock, counter, completed, results, returned, calls,
                  renamed_to, response >>

\* Discover without the forced single worker of cli.py:146-147
Discover_keeps_workers ==
  /\ mainpc = "discover"
  /\ \E found \in {discover_files(fs)} :
        /\ files' = found
        /\ IF found = <<>>
           THEN /\ mainpc' = "returned"
                /\ returned' = <<0, 0, 0>>
                /\ UNCHANGED << pc, image, result, exception, calls, renamed_to,
                                response >>
           ELSE /\ mainpc' = "collect"
                /\ pc' = [i \in 1..Len(found) |-> "queued"]
                /\ image' = [i \in 1..Len(found) |-> Unset]
                /\ result' = [i \in 1..Len(found) |-> ProcessResult(found[i])]
                /\ exception' = [i \in 1..Len(found) |-> None]
                /\ calls' = [i \in 1..Len(found) |-> NoCalls]
                /\ renamed_to' = [i \in 1..Len(found) |-> <<>>]
                /\ response' = [i \in 1..Len(found) |-> None]
                /\ UNCHANGED returned
  /\ counter' = 0
  /\ results' = <<>>
  /\ UNCHANGED << params, fnvars, probes, printed,
                  fs, workers, print_lock, completed >>

\* cli.py:137-168: discovery, the forced single worker, the counter, and the
\* submission of one task per file
Discover ==
  /\ mainpc = "discover"
  /\ \E found \in {discover_files(fs)} :
        /\ files' = found
        /\ IF found = <<>>
           THEN /\ mainpc' = "returned"
                /\ returned' = <<0, 0, 0>>
                /\ UNCHANGED << workers, pc, image, result, exception, calls,
                                renamed_to, response >>
           ELSE /\ mainpc' = "collect"
                /\ workers' = IF confirm THEN 1 ELSE workers
                /\ pc' = [i \in 1..Len(found) |-> "queued"]
                /\ image' = [i \in 1..Len(found) |-> Unset]
                /\ result' = [i \in 1..Len(found) |-> ProcessResult(found[i])]
                /\ exception' = [i \in 1..Len(found) |-> None]
                /\ calls' = [i \in 1..Len(found) |-> NoCalls]
                /\ renamed_to' = [i \in 1..Len(found) |-> <<>>]
                /\ response' = [i \in 1..Len(found) |-> None]
                /\ UNCHANGED returned
  /\ counter' = 0
  /\ results' = <<>>
  /\ UNCHANGED << params, fnvars, probes, printed,
                  fs, print_lock, completed >>

\* the position in as_completed order of the first future holding an
\* exception, 0 when no future holds one
FirstRaised ==
  IF \E k \in 1..Len(completed) : exception[completed[k]] # None
  THEN CHOOSE k \in 1..Len(completed) :
         /\ exception[completed[k]] # None
         /\ \A m \in 1..(k - 1) : exception[completed[m]] = None
  ELSE 0

\* cli.py:160-178: the loop over as_completed, future.result() returning a
\* ProcessResult or raising the task's exception, the end of the with block
\* (which waits for every submitted task), and the three counts
Gather ==
  /\ mainpc = "collect"
  /\ \A i \in Ids : Terminal(i)
  /\ IF FirstRaised = 0
     THEN /\ results' = [k \in 1..Len(completed) |-> result[completed[k]]]
          /\ returned' = << CountIf(results', "new_name"),
                            CountIf(results', "skipped_reason"),
                            CountIf(results', "error") >>
          /\ mainpc' = "returned"
     ELSE /\ results' = [k \in 1..(FirstRaised - 1) |-> result[completed[k]]]
          /\ mainpc' = "raised"
          /\ UNCHANGED returned
  /\ UNCHANGED << params, fnvars, probes, printed,
                  fs, workers, files, pc, image, result, exception,
                  print_lock, counter, completed, calls, renamed_to, response >>

(* ---------------------------------------------------------------------- *)
(* cli.py: process_single_file, one worker thread per running task         *)
(* ---------------------------------------------------------------------- *)

\* ThreadPoolExecutor: an idle worker takes the oldest queued task
Start(i) ==
  /\ mainpc = "collect"
  /\ pc[i] = "queued"
  /\ \A j \in Ids : j < i => pc[j] # "queued"
  /\ Cardinality(Busy) < workers
  /\ pc' = [pc EXCEPT ![i] = "acquire"]
  /\ UNCHANGED << params, fnvars, probes, printed,
                  fs, workers, mainpc, files, image, result, exception,
                  print_lock, counter, completed, results, returned, calls,
                  renamed_to, response >>

\* AcquireImage without the return of cli.py:66: a failed read goes on to
\* the extraction
AcquireImage_no_return(i) ==
  /\ pc[i] = "acquire"
  /\ calls' = [calls EXCEPT ![i].read = @ + 1]
  /\ \E image_bytes \in {None, "bytes"} :
       /\ image' = [image EXCEPT ![i] = image_bytes]
       /\ pc' = [pc EXCEPT ![i] = "extract"]
       /\ result' = IF image_bytes = None
                    THEN [result EXCEPT ![i].error = "failed to read file"]
                    ELSE result
  /\ UNCHANGED << params, fnvars, probes, printed,
                  fs, workers, mainpc, files, exception, print_lock,
                  counter, completed, results, returned, renamed_to, response >>

\* cli.py:56-61
AcquireImage(i) ==
  /\ pc[i] = "acquire"
  /\ calls' = [calls EXCEPT ![i].read = @ + 1]
  /\ \E image_bytes \in {None, "bytes"} :
       /\ image' = [image EXCEPT ![i] = image_bytes]
       /\ IF image_bytes = None
          THEN /\ pc' = [pc EXCEPT ![i] = "read_failed"]
               /\ result' = [result EXCEPT ![i].error = "failed to read file"]
          ELSE /\ pc' = [pc EXCEPT ![i] = "extract"]
               /\ UNCHANGED result
  /\ UNCHANGED << params, fnvars, probes, printed,
                  fs, workers, mainpc, files, exception, print_lock,
                  counter, completed, results, returned, renamed_to, response >>

\* cli.py:62-66 and cli.py:75-79: take the lock, count, print, release the
\* lock, return
Report(i) ==
  /\ pc[i] \in {"read_failed", "skip"}
  /\ print_lock = 0
  /\ counter' = counter + 1
  /\ printed' = Append(printed, i)
  /\ calls' = [calls EXCEPT ![i].inc = @ + 1]
  /\ pc' = [pc EXCEPT ![i] = "done"]
  /\ completed' = Append(completed, i)
  /\ UNCHANGED << params, fnvars, probes, fs, workers, mainpc, files, image, result, exception,
                  print_lock, results, returned, renamed_to, response >>

\* Extract that skips only a record with no provider, whatever the flag
Extract_trusts_fields(i) ==
  /\ pc[i] = "extract"
  /\ calls' = [calls EXCEPT ![i].extract = @ + 1]
  /\ \E raises \in BOOLEAN, data \in Records :
       IF raises
       THEN /\ pc' = [pc EXCEPT ![i] = "raised"]
            /\ exception' = [exception EXCEPT ![i] = "Exception"]
            /\ completed' = Append(completed, i)
            /\ UNCHANGED result
       ELSE /\ pc' = [pc EXCEPT ![i] = IF data.provider = None THEN "skip" ELSE "name"]
            /\ result' = [result EXCEPT
                            ![i].data = <<data>>,
                            ![i].skipped_reason = IF data.provider = None
                                                  THEN "not a medical receipt"
                                                  ELSE @]
            /\ UNCHANGED << exception, completed >>
  /\ UNCHANGED << params, fnvars, probes, printed,
                  fs, workers, mainpc, files, image, print_lock, counter,
                  results, returned, renamed_to, response >>

\* Extract inside the critical section: the worker takes print_lock before
\* the extraction call and releases it when the call is over
Extract_in_lock(i) ==
  /\ pc[i] = "extract"
  /\ IF print_lock # i
     THEN /\ print_lock = 0
          /\ print_lock' = i
          /\ UNCHANGED << calls, pc, exception, completed, result >>
     ELSE /\ print_lock' = 0
          /\ calls' = [calls EXCEPT ![i].extract = @ + 1]
          /\ \E raises \in BOOLEAN, data \in Records :
               IF raises
               THEN /\ pc' = [pc EXCEPT ![i] = "raised"]
                    /\ exception' = [exception EXCEPT ![i] = "Exception"]
                    /\ completed' = Append(completed, i)
                    /\ UNCHANGED result
               ELSE /\ pc' = [pc EXCEPT ![i] = IF ~data.is_medical_receipt
                                               THEN "skip" ELSE "name"]
                    /\ result' = [result EXCEPT
                                    ![i].data = <<data>>,
                                    ![i].skipped_reason = IF ~data.is_medical_receipt
                                                          THEN "not a medical receipt"
                                                          ELSE @]
                    /\ UNCHANGED << exception, completed >>
  /\ UNCHANGED << params, fnvars, probes, printed,
                  fs, workers, mainpc, files, image, counter,
                  results, returned, renamed_to, response >>

\* cli.py:68-79: extractor.extract has no handler around it
Extract(i) ==
  /\ pc[i] = "extract"
  /\ calls' = [calls EXCEPT ![i].extract = @ + 1]
  /\ \E raises \in BOOLEAN, data \in Records :
       IF raises
       THEN /\ pc' = [pc EXCEPT ![i] = "raised"]
            /\ exception' = [exception EXCEPT ![i] = "Exception"]
            /\ completed' = Append(completed, i)
            /\ UNCHANGED result
       ELSE /\ pc' = [pc EXCEPT ![i] = IF ~data.is_medical_receipt
                                       THEN "skip" ELSE "name"]
            /\ result' = [result EXCEPT
                            ![i].data = <<data>>,
                            ![i].skipped_reason = IF ~data.is_medical_receipt
                                                  THEN "not a medical receipt"
                                                  ELSE @]
            /\ UNCHANGED << exception, completed >>
  /\ UNCHANGED << params, fnvars, probes, printed,
                  fs, workers, mainpc, files, image, print_lock, counter,
                  results, returned, renamed_to, response >>

\* Resolve that leaves the with block after the probe, so that the prompt
\* and the rename run outside the critical section
Resolve_releasing(i) ==
  /\ pc[i] = "name"
  /\ print_lock = 0
  /\ \E built \in {generate_new_name(result[i].data[1], suffix_of[files[i]])} :
     \E new_name \in {resolve_conflict(fs, parent(files[i]), built)} :
        IF new_name = RuntimeError
        THEN /\ pc' = [pc EXCEPT ![i] = "raised"]
             /\ exception' = [exception EXCEPT ![i] = RuntimeError]
             /\ completed' = Append(completed, i)
             /\ calls' = [calls EXCEPT ![i].build = @ + 1, ![i].probe = @ + 1]
             /\ UNCHANGED << result, counter, printed >>
        ELSE /\ pc' = [pc EXCEPT ![i] = IF confirm THEN "prompt" ELSE "rename"]
             /\ result' = [result EXCEPT ![i].new_name = new_name]
             /\ counter' = counter + 1
             /\ printed' = Append(printed, i)
             /\ calls' = [calls EXCEPT ![i].build = @ + 1, ![i].probe = @ + 1,
                                       ![i].inc = @ + 1]
             /\ UNCHANGED << exception, completed >>
  /\ UNCHANGED << params, fnvars, probes, fs, workers, mainpc, files, image, print_lock, results,
                  returned, renamed_to, response >>

\* cli.py:82-94: take the lock, build the name, probe the directory, count
\* and print; an exhausted probe raises out of the with block
Resolve(i) ==
  /\ pc[i] = "name"
  /\ print_lock = 0
  /\ \E built \in {generate_new_name(result[i].data[1], suffix_of[files[i]])} :
     \E new_name \in {resolve_conflict(fs, parent(files[i]), built)} :
        IF new_name = RuntimeError
        THEN /\ pc' = [pc EXCEPT ![i] = "raised"]
             /\ exception' = [exception EXCEPT ![i] = RuntimeError]
             /\ completed' = Append(completed, i)
             /\ calls' = [calls EXCEPT ![i].build = @ + 1, ![i].probe = @ + 1]
             /\ UNCHANGED << result, counter, printed, print_lock >>
        ELSE /\ pc' = [pc EXCEPT ![i] = IF confirm THEN "prompt" ELSE "rename"]
             /\ print_lock' = i
             /\ result' = [result EXCEPT ![i].new_name = new_name]
             /\ counter' = counter + 1
             /\ printed' = Append(printed, i)
             /\ calls' = [calls EXCEPT ![i].build = @ + 1, ![i].probe = @ + 1,
                                       ![i].inc = @ + 1]
             /\ UNCHANGED << exception, completed >>
  /\ UNCHANGED << params, fnvars, probes, fs, workers, mainpc, files, image, results, returned,
                  renamed_to, response >>

\* Prompt without cli.py:103: a declined file keeps its new_name
Prompt_keeps_name(i) ==
  /\ pc[i] = "prompt"
  /\ calls' = [calls EXCEPT ![i].prompt = @ + 1]
  /\ \E typed \in Responses :
       /\ response' = [response EXCEPT ![i] = typed]
       /\ IF typed = EOF
          THEN /\ pc' = [pc EXCEPT ![i] = "raised"]
               /\ exception' = [exception EXCEPT ![i] = "EOFError"]
               /\ completed' = Append(completed, i)
               /\ print_lock' = 0
               /\ UNCHANGED result
          ELSE IF lower_str[strip(typed)] = "n"
          THEN /\ pc' = [pc EXCEPT ![i] = "done"]
               /\ completed' = Append(completed, i)
               /\ print_lock' = 0
               /\ result' = [result EXCEPT ![i].skipped_reason = "skipped by user"]
               /\ UNCHANGED exception
          ELSE /\ pc' = [pc EXCEPT ![i] = "rename"]
               /\ UNCHANGED << print_lock, result, exception, completed >>
  /\ UNCHANGED << params, fnvars, probes, printed,
                  fs, workers, mainpc, files, image, counter, results,
                  returned, renamed_to >>

\* Prompt without the .lower() of cli.py:99
Prompt_case_sensitive(i) ==
  /\ pc[i] = "prompt"
  /\ calls' = [calls EXCEPT ![i].prompt = @ + 1]
  /\ \E typed \in Responses :
       /\ response' = [response EXCEPT ![i] = typed]
       /\ IF typed = EOF
          THEN /\ pc' = [pc EXCEPT ![i] = "raised"]
               /\ exception' = [exception EXCEPT ![i] = "EOFError"]
               /\ completed' = Append(completed, i)
               /\ print_lock' = 0
               /\ UNCHANGED result
          ELSE IF strip(typed) = "n"
          THEN /\ pc' = [pc EXCEPT ![i] = "done"]
               /\ completed' = Append(completed, i)
               /\ print_lock' = 0
               /\ result' = [result EXCEPT ![i].skipped_reason = "skipped by user",
                                           ![i].new_name = None]
               /\ UNCHANGED exception
          ELSE /\ pc' = [pc EXCEPT ![i] = "rename"]
               /\ UNCHANGED << print_lock, result, exception, completed >>
  /\ UNCHANGED << params, fnvars, probes, printed,
                  fs, workers, mainpc, files, image, counter, results,
                  returned, renamed_to >>

\* Prompt whose early return at cli.py:104 leaves print_lock held
Prompt_holds_lock(i) ==
  /\ pc[i] = "prompt"
  /\ calls' = [calls EXCEPT ![i].prompt = @ + 1]
  /\ \E typed \in Responses :
       /\ response' = [response EXCEPT ![i] = typed]
       /\ IF typed = EOF
          THEN /\ pc' = [pc EXCEPT ![i] = "raised"]
               /\ exception' = [exception EXCEPT ![i] = "EOFError"]
               /\ completed' = Append(completed, i)
               /\ print_lock' = 0
               /\ UNCHANGED result
          ELSE IF lower_str[strip(typed)] = "n"
          THEN /\ pc' = [pc EXCEPT ![i] = "done"]
               /\ completed' = Append(completed, i)
               /\ result' = [result EXCEPT ![i].skipped_reason = "skipped by user",
                                           ![i].new_name = None]
               /\ UNCHANGED << print_lock, exception >>
          ELSE /\ pc' = [pc EXCEPT ![i] = "rename"]
               /\ UNCHANGED << print_lock, result, exception, completed >>
  /\ UNCHANGED << params, fnvars, probes, printed,
                  fs, workers, mainpc, files, image, counter, results,
                  returned, renamed_to >>

\* cli.py:96-104: the prompt; input() raises EOFError at the end of input
Prompt(i) ==
  /\ pc[i] = "prompt"
  /\ calls' = [calls EXCEPT ![i].prompt = @ + 1]
  /\ \E typed \in Responses :
       /\ response' = [response EXCEPT ![i] = typed]
       /\ IF typed = EOF
          THEN /\ pc' = [pc EXCEPT ![i] = "raised"]
               /\ exception' = [exception EXCEPT ![i] = "EOFError"]
               /\ completed' = Append(completed, i)
               /\ print_lock' = 0
               /\ UNCHANGED result
          ELSE IF lower_str[strip(typed)] = "n"
          THEN /\ pc' = [pc EXCEPT ![i] = "done"]
               /\ completed' = Append(completed, i)
               /\ print_lock' = 0
               /\ result' = [result EXCEPT ![i].skipped_reason = "skipped by user",
                                           ![i].new_name = None]
               /\ UNCHANGED exception
          ELSE /\ pc' = [pc EXCEPT ![i] = "rename"]
               /\ UNCHANGED << print_lock, result, exception, completed >>
  /\ UNCHANGED << params, fnvars, probes, printed,
                  fs, workers, mainpc, files, image, counter, results,
                  returned, renamed_to >>

\* Rename without the dry_run test of cli.py:106
Rename_always(i) ==
  /\ pc[i] = "rename"
  /\ print_lock' = 0
  /\ completed' = Append(completed, i)
  /\ \E after \in {execute_rename(fs, files[i], result[i].new_name)} :
        /\ calls' = [calls EXCEPT ![i].rename = @ + 1]
        /\ pc' = [pc EXCEPT ![i] = IF after.error # None THEN "raised" ELSE "done"]
        /\ exception' = [exception EXCEPT ![i] = after.error]
        /\ renamed_to' = [renamed_to EXCEPT ![i] = after.new_path]
        /\ fs' = after.files
  /\ UNCHANGED << params, fnvars, probes, printed,
                  workers, mainpc, files, image, result, counter, results,
                  returned, response >>

\* cli.py:106-109: the rename, the end of the with block, the return
Rename(i) ==
  /\ pc[i] = "rename"
  /\ print_lock' = 0
  /\ completed' = Append(completed, i)
  /\ IF dry_run
     THEN /\ pc' = [pc EXCEPT ![i] = "done"]
          /\ UNCHANGED << fs, calls, exception, renamed_to >>
     ELSE \E after \in {execute_rename(fs, files[i], result[i].new_name)} :
             /\ calls' = [calls EXCEPT ![i].rename = @ + 1]
             /\ pc' = [pc EXCEPT ![i] = IF after.error # None THEN "raised" ELSE "done"]
             /\ exception' = [exception EXCEPT ![i] = after.error]
             /\ renamed_to' = [renamed_to EXCEPT ![i] = after.new_path]
             /\ fs' = after.files
  /\ UNCHANGED << params, fnvars, probes, printed,
                  workers, mainpc, files, image, result, counter, results,
                  returned, response >>

Next ==
  \/ CheckAvailable
  \/ Discover
  \/ \E i \in Ids : Start(i)
  \/ \E i \in Ids : AcquireImage(i)
  \/ \E i \in Ids : Extract(i)
  \/ \E i \in Ids : Report(i)
  \/ \E i \in Ids : Resolve(i)
  \/ \E i \in Ids : Prompt(i)
  \/ \E i \in Ids : Rename(i)
  \/ Gather

Spec == Init /\ [][Next]_vars

\* a step of process_files or of a worker thread that waits for nothing
\* but the lock: every step but the operator's answer at the prompt and
\* the first submitted file's file_to_image_bytes and extract calls, which
\* may block for ever
Runnable ==
  \/ CheckAvailable
  \/ Discover
  \/ Gather
  \/ \E i \in Ids : Start(i) \/ Report(i) \/ Resolve(i) \/ Rename(i)
  \/ \E i \in Ids \ {1} : AcquireImage(i) \/ Extract(i)

\* the interpreter goes on running threads while one of them can run
Scheduling == WF_vars(Runnable)

SpecHang == Init /\ [][Next]_vars /\ Scheduling

(* ---------------------------------------------------------------------- *)
(* The functions of renamer.py and models.py, each called on its own on    *)
(* an input drawn from a bounded set                                       *)
(* ---------------------------------------------------------------------- *)

\* longest text of the enumerated inputs of sanitize
MaxLen == 3

\* longest run test_1 .. test_k of taken names that is enumerated
MaxChain == 3

\* the variables of a run, which a function called on its own leaves alone
runvars ==
  << fs, fs0, available, dry_run, confirm, args_workers, workers, mainpc, files,
     pc, image, result, exception, print_lock, counter, completed, results,
     returned, calls, renamed_to, response, probes, printed >>

\* no run is under way
NoRun ==
  /\ fs = {} /\ fs0 = {}
  /\ available = FALSE /\ dry_run = TRUE /\ confirm = FALSE
  /\ args_workers = 1 /\ workers = 1
  /\ mainpc = "exited"
  /\ files = <<>> /\ pc = <<>> /\ image = <<>> /\ result = <<>>
  /\ exception = <<>> /\ print_lock = 0 /\ counter = 0 /\ completed = <<>>
  /\ results = <<>> /\ returned = <<>> /\ calls = <<>> /\ renamed_to = <<>>
  /\ response = <<>> /\ probes = 0 /\ printed = <<>>

\* the texts of at most n characters of an alphabet
RECURSIVE TextsUpTo(_, _)
TextsUpTo(alphabet, n) ==
  IF n = 0 THEN {""}
  ELSE LET shorter == TextsUpTo(alphabet, n - 1)
       IN shorter \cup {t \o c : t \in shorter, c \in alphabet}

RECURSIVE Repeat(_, _)
Repeat(t, n) == IF n = 0 THEN "" ELSE t \o Repeat(t, n - 1)

\* inputs of sanitize: None, every short text, and texts around the limit
SanitizeInputs ==
  {None}
    \cup TextsUpTo({"a", "B", "7", "_", " ", "!", "."}, MaxLen)
    \cup { "Dr. Smith's Clinic!", "CVS Pharmacy", "  john   DOE  ", "!!! ... ???",
           Repeat("A", 50), Repeat("a", 30), Repeat("a", 31), Repeat("ab ", 12),
           Repeat("!", 40), Repeat("x", 29) \o " y z", Repeat("_", 35),
           Repeat("a!", 31) }

\* inputs of execute_rename: the files on disk, the source, the new name
RenameFiles ==
  { Root \o <<"old.pdf">>, Root \o <<"a.pdf">>, Root \o <<"s", "c.pdf">>, <<"top.pdf">> }

RenameNames ==
  { "new.pdf", "a.pdf", "old.pdf", "../malicious.pdf", "s/x.pdf", "../r/new.pdf",
    "s/../new.pdf", "x/../new.pdf", "2024-01-15/../../etc_UNKNOWN.pdf", "..",
    ".", "", "s", "/etc/passwd", "/r/new.pdf", "../../top.pdf" }

RenameInputs ==
  { [files |-> F, source |-> src, new_name |-> nm] :
      F \in SUBSET RenameFiles, src \in RenameFiles, nm \in RenameNames }

\* inputs of resolve_conflict: the files on disk, the directory, the name
ConflictNames == {"test.pdf", "noext", "a.tar.gz", Candidate}

\* the name with _n inserted before its extension
Suffixed(filename, n) ==
  stem_of[<<filename>>] \o "_" \o ToString(n) \o suffix_of[<<filename>>]

\* the name and its suffixed names _1 .. _k, all taken
Chain(filename, k) ==
  {Root \o <<filename>>} \cup {Root \o <<Suffixed(filename, m)>> : m \in 1..k}

\* nothing taken, or a chain of taken names with at most one gap in it
TakenSets(filename) ==
  {{}} \cup { Chain(filename, k) \ gap :
               k \in 0..MaxChain,
               gap \in {{}} \cup {{p} : p \in Chain(filename, MaxChain)} }

ConflictInputs ==
  UNION { { [files |-> F, directory |-> Root, filename |-> nm] : F \in TakenSets(nm) } :
          nm \in ConflictNames }
    \cup { [files |-> Chain("test.pdf", k), directory |-> Root, filename |-> "test.pdf"] :
             k \in {MAX_CONFLICT_ATTEMPTS - 1, MAX_CONFLICT_ATTEMPTS} }

\* inputs of from_json: raw response texts
RawTexts ==
  { "{\"date\": \"2024-01-15\", \"provider\": \"CVS\", \"amount\": 45.99}",
    "Here is the data: {\"date\": \"2024-01-15\", \"provider\": \"CVS\"} done",
    "{\"date\": \"2024-01-15\", \"unknown_field\": \"ignored\"}",
    "{\"date\": \"2024-01-15\", \"provider\": \"CVS Pharmacy\", \"patient\": \"John Doe\", \"amount\": 45.99, \"currency\": \"SGD\", \"is_medical_receipt\": true}",
    "{\"is_medical_receipt\": false, \"provider\": \"Cafe\", \"amount\": 12}",
    "{\"date\": null, \"provider\": null, \"patient\": null, \"amount\": null}",
    "{\"date\": \"15 Jan 2024\", \"provider\": \"Dr. Smith's Clinic!\", \"patient\": \"!!\"}",
    "{\"date\": \"2024-01-15/../../etc\", \"provider\": \"CVS\"}",
    "{\"date\": \"2024-01-15\", \"amount\": 10, \"currency\": \"../X\"}",
    "{\"date\": \"2024-01-15T10:00\", \"patient\": \"a/b\"}",
    "{\"amount\": 100, \"amount\": 7.5}",
    "{}", "{ }", "not json at all", "", " ", "{bad}", "{\"date\": \"2024-01-15\"",
    "{\"a\": \"}\"}", "[1, {\"is_medical_receipt\": true}]", "{\"a\": {\"date\": \"2024-01-15\"}}",
    "42", "-1.5", "null", "true", "false", "\"2024-01-15\"", "[]", "[1, 2]", " 7 ",
    "[1,]", "01", "nul", "}{", "I cannot read this receipt." }

\* inputs of from_json for the amount: a numeral between a prefix and a
\* suffix that hold no digit ("" for no numeral)
AmountInputs ==
  { [prefix |-> p, numeral |-> n, suffix |-> q] :
      p \in {"", "$", "USD ", "Rs. ", "S$ ", "approx. "},
      n \in {"45.99", "100.50", "100", "0.5", "7", ""},
      q \in {"", " USD", ".", " only", " (incl. tax)", ","} }

AmountText(in) ==
  "{\"amount\": \"" \o in.prefix \o in.numeral \o in.suffix \o "\"}"

\* the extensions discovered files have
Extensions == {".pdf", ".PNG", ".jpeg"}

InitFn ==
  /\ NoRun
  /\ fn_out = <<>>
  /\ \/ fn_op = "sanitize" /\ fn_in \in SanitizeInputs
     \/ fn_op = "execute_rename" /\ fn_in \in RenameInputs
     \/ fn_op = "resolve_conflict" /\ fn_in \in ConflictInputs
     \/ fn_op = "from_json" /\ fn_in \in RawTexts
     \/ fn_op = "amount" /\ fn_in \in AmountInputs

Sanitize ==
  /\ fn_op = "sanitize" /\ fn_out = <<>>
  /\ fn_out' = <<sanitize(fn_in)>>
  /\ UNCHANGED << runvars, fn_op, fn_in >>

ExecuteRename ==
  /\ fn_op = "execute_rename" /\ fn_out = <<>>
  /\ fn_in.source \in fn_in.files
  /\ fn_out' = <<execute_rename(fn_in.files, fn_in.source, fn_in.new_name)>>
  /\ UNCHANGED << runvars, fn_op, fn_in >>

ResolveConflict ==
  /\ fn_op = "resolve_conflict" /\ fn_out = <<>>
  /\ fn_out' = <<resolve_conflict(fn_in.files, fn_in.directory, fn_in.filename)>>
  /\ UNCHANGED << runvars, fn_op, fn_in >>

FromJson ==
  /\ fn_op = "from_json" /\ fn_out = <<>>
  /\ fn_out' = <<from_json(fn_in)>>
  /\ UNCHANGED << runvars, fn_op, fn_in >>

FromJsonAmount ==
  /\ fn_op = "amount" /\ fn_out = <<>>
  /\ fn_out' = <<from_json(AmountText(fn_in))>>
  /\ UNCHANGED << runvars, fn_op, fn_in >>

\* the name builder on a record from_json returned, as cli.py:83 calls it
\* on what extractor.extract returned
GenerateNewName ==
  /\ fn_op = "from_json" /\ fn_out # <<>>
  /\ fn_out[1].error = None
  /\ \E ext \in Extensions :
       /\ fn_op' = "generate_new_name"
       /\ fn_in' = [data |-> fn_out[1].data[1], original_ext |-> ext]
       /\ fn_out' = <<generate_new_name(fn_out[1].data[1], ext)>>
  /\ UNCHANGED runvars

NextFn ==
  \/ Sanitize
  \/ ExecuteRename
  \/ ResolveConflict
  \/ FromJson
  \/ FromJsonAmount
  \/ GenerateNewName

SpecFn == InitFn /\ [][NextFn]_vars

(* ---------------------------------------------------------------------- *)
(* Properties                                                              *)
(* ---------------------------------------------------------------------- *)

\* the files whose rename was carried out
Renamed == {i \in Ids : renamed_to[i] # <<>>}

\* where the rename of file i put it
Dest(i) == resolve(renamed_to[i][1])

\* the candidate name the name builder yields for file i
Built(i) == generate_new_name(result[i].data[1], suffix_of[files[i]])

\* file i is a receipt whose name has been built and probed
Named(i) == calls[i].probe = 1 /\ pc[i] \in {"prompt", "rename", "done"}

InDir(files_, d) == {p \in files_ : parent(p) = d}

Position(i) == CHOOSE k \in 1..Len(completed) : completed[k] = i

\* file i left the naming critical section before file j entered it
Before(i, j) ==
  /\ Terminal(i)
  /\ Terminal(j) => Position(i) < Position(j)

\* C1: in a live run every rename goes to a path nothing occupies: the
\* files renamed so far have pairwise different destinations and are all
\* still there, no file that was on disk at the start has been replaced,
\* and every directory holds as many files as at the start.
C1_RenameNeverOverwrites ==
  ~dry_run =>
    /\ \A i, j \in Renamed : i # j => Dest(i) # Dest(j)
    /\ \A i \in Renamed : Dest(i) \in fs /\ Dest(i) \notin fs0 \ Range(files)
    /\ \A i \in Ids \ Renamed : files[i] \in fs
    /\ fs0 \ Range(files) \subseteq fs
    /\ \A d \in Dirs : Cardinality(InDir(fs, d)) = Cardinality(InDir(fs0, d))

\* two workers ran at once and two files of one directory that yield the
\* same candidate were both renamed
C1_Witness ==
  /\ ~dry_run
  /\ workers = 2
  /\ mainpc = "returned"
  /\ \E i, j \in Renamed :
       /\ i # j
       /\ parent(files[i]) = parent(files[j])
       /\ Built(i) = Built(j)

Declined(i) == result[i].skipped_reason = "skipped by user"

\* files i and j lie in one directory, yield the same candidate name, and
\* i went through the naming critical section before j
SameCandidate(i, j) ==
  /\ i # j
  /\ parent(files[i]) = parent(files[j])
  /\ Named(i) /\ Named(j)
  /\ Before(i, j)
  /\ Built(i) = Built(j)

\* C2 as stated, for the candidate name of the receipt record when no
\* entry had that name at the start of the run: of two files of one
\* directory that yield the same candidate name, the one that enters the
\* critical section first gets the candidate and the second gets the
\* candidate with _1.
C2_SecondGetsSuffixOne ==
  \A i, j \in Ids :
    ( /\ SameCandidate(i, j)
      /\ ~Declined(i) /\ ~Declined(j)
      /\ Built(i) = Candidate
      /\ joinpath[parent(files[i]), Candidate] \notin fs0 ) =>
      /\ result[i].new_name = Built(i)
      /\ result[j].new_name = Suffixed(Built(i), 1)

\* C2, amended: in a live run, once the first of the two files got the
\* candidate name and was renamed to it, the second, while it holds the
\* critical section, has the candidate with _n for the smallest n >= 1
\* whose name is free (so _1 when no entry of that name exists); and two
\* renamed files never have the same final name.  In a dry run nothing is
\* renamed, so the second probe sees the directory as the first did and
\* the two files are reported the same name.
C2_SecondGetsFirstFreeSuffix ==
  /\ ~dry_run =>
       /\ \A i, j \in Ids :
            ( /\ pc[j] \in {"prompt", "rename"}
              /\ i \in Renamed
              /\ SameCandidate(i, j)
              /\ result[i].new_name = Built(i) ) =>
              \E n \in 1..MAX_CONFLICT_ATTEMPTS :
                /\ result[j].new_name = Suffixed(Built(j), n)
                /\ joinpath[parent(files[j]), Suffixed(Built(j), n)] \notin fs
                /\ \A m \in 1..(n - 1) :
                     joinpath[parent(files[j]), Suffixed(Built(j), m)] \in fs
       /\ \A i, j \in Renamed :
            SameCandidate(i, j) => result[i].new_name # result[j].new_name
  /\ dry_run =>
       \A i, j \in Ids :
         (SameCandidate(i, j) /\ ~Declined(i) /\ ~Declined(j)) =>
           result[i].new_name = result[j].new_name

\* the first file was renamed to the candidate, the second is about to be
\* renamed to the candidate with _1
C2_Witness ==
  /\ ~dry_run
  /\ \E i, j \in Ids :
       /\ SameCandidate(i, j)
       /\ i \in Renamed
       /\ result[i].new_name = Candidate
       /\ pc[j] = "rename"
       /\ result[j].new_name = Suffixed(Candidate, 1)

\* s contains sub
Contains(s, sub) ==
  \E k \in 1..(Len(s) - Len(sub) + 1) : SubSeq(s, k, k + Len(sub) - 1) = sub

\* the extraction call was made for file i and raised
ExtractionRaised(i) ==
  image[i] = "bytes" /\ calls[i].extract = 1 /\ result[i].data = <<>>

\* C3: when the extraction call raises, process_single_file returns an
\* outcome whose error contains "extraction failed", with no new_name and
\* no skip reason, having counted the file once and built no name.
C3_ExtractionFailureIsAnOutcome ==
  \A i \in Ids :
    ExtractionRaised(i) =>
      /\ pc[i] = "done"
      /\ exception[i] = None
      /\ Contains(result[i].error, "extraction failed")
      /\ result[i].new_name = None
      /\ result[i].skipped_reason = None
      /\ calls[i].inc = 1
      /\ calls[i].build = 0
      /\ calls[i].rename = 0

\* the name resolved for file i leaves the directory of the file
Escapes(i) ==
  /\ result[i].new_name # None
  /\ parent(resolve(joinpath[parent(files[i]), result[i].new_name]))
       # resolve(parent(files[i]))

\* the rename of file i was rejected, or its conflict resolution gave up
FailedInCriticalSection(i) ==
  /\ Terminal(i)
  /\ calls[i].probe = 1
  /\ \/ calls[i].rename = 1 /\ Escapes(i)
     \/ calls[i].inc = 0

\* C4: an error raised inside the critical section becomes a failure
\* outcome of that file, and process_files does not raise because of it.
C4_CriticalSectionErrorIsAnOutcome ==
  /\ \A i \in Ids :
       FailedInCriticalSection(i) =>
         /\ pc[i] = "done"
         /\ exception[i] = None
         /\ Truthy(result[i].error)
  /\ mainpc = "raised" =>
       \E i \in Ids : exception[i] \notin {None, RuntimeError, ValueError}

Outcomes(r) == {f \in {"error", "skipped_reason", "new_name"} : Truthy(r[f])}

\* C5: every outcome carries exactly one of error, skipped_reason and
\* new_name, and the three counts process_files returns add up to the
\* number of discovered files.
C5_ExactlyOneOutcome ==
  /\ \A i \in Ids : pc[i] = "done" => Cardinality(Outcomes(result[i])) = 1
  /\ \A k \in 1..Len(results) : Cardinality(Outcomes(results[k])) = 1
  /\ mainpc = "returned" =>
       returned[1] + returned[2] + returned[3] = Len(files)

\* a sequential run with confirmation returned one renamed and one
\* declined file
C5_Witness ==
  /\ mainpc = "returned"
  /\ confirm
  /\ returned = <<1, 1, 0>>
  /\ \E i \in Ids : Declined(i)

NonReceipt(i) == result[i].data # <<>> /\ ~result[i].data[1].is_medical_receipt

\* C6: a record with is_medical_receipt false ends in the skip "not a
\* medical receipt" whatever its other fields: no name, probe, prompt or
\* rename for the file, and it is counted among the skipped.
C6_NonReceiptIsSkipped ==
  /\ \A i \in Ids :
       NonReceipt(i) =>
         /\ pc[i] \in {"skip", "done"}
         /\ result[i].skipped_reason = "not a medical receipt"
         /\ result[i].new_name = None
         /\ result[i].error = None
         /\ calls[i].build = 0 /\ calls[i].probe = 0
         /\ calls[i].prompt = 0 /\ calls[i].rename = 0
         /\ files[i] \in fs
  /\ mainpc = "returned" =>
       /\ returned[2] = Cardinality({i \in Ids : Truthy(result[i].skipped_reason)})
       /\ returned[2] >= Cardinality({i \in Ids : NonReceipt(i)})

\* a record with every field filled in and the flag false was skipped
C6_Witness ==
  /\ mainpc = "returned"
  /\ returned[2] >= 1
  /\ \E i \in Ids : result[i].data = <<NonReceiptRecord>>

\* the operator answered the prompt of file i
Answered(i) == response[i] # None /\ response[i] # EOF

\* what follows a decline
DeclineEffect(i) ==
  /\ pc[i] = "done"
  /\ result[i].skipped_reason = "skipped by user"
  /\ result[i].new_name = None
  /\ calls[i].rename = 0

\* what follows an acceptance
AcceptEffect(i) ==
  /\ result[i].skipped_reason = None
  /\ Truthy(result[i].new_name)
  /\ pc[i] = "rename" => calls[i].rename = 0
  /\ Terminal(i) => calls[i].rename = (IF dry_run THEN 0 ELSE 1)

\* C7 as stated: the responses n and N are declines, every other response
\* is an acceptance.
C7_OnlyLetterNDeclines ==
  \A i \in Ids :
    Answered(i) =>
      IF response[i] \in {"n", "N"} THEN DeclineEffect(i) ELSE AcceptEffect(i)

\* C7, amended: a response that is n or N once the white space around it
\* is removed is a decline (skip "skipped by user", no new_name, no rename,
\* not counted as processed); every other response, the empty one included,
\* is an acceptance, renamed in live mode and only reported in dry-run mode.
C7_StrippedLetterNDeclines ==
  /\ \A i \in Ids :
       Answered(i) =>
         IF strip(response[i]) \in {"n", "N"}
         THEN DeclineEffect(i) ELSE AcceptEffect(i)
  /\ mainpc = "returned" =>
       returned[1] = Cardinality({i \in Ids : Named(i) /\ ~Declined(i)})

\* one file was declined with an upper-case N, another accepted with an
\* empty response and renamed
C7_Witness ==
  \E i, j \in Ids :
    /\ response[i] = "N" /\ pc[i] = "done"
    /\ response[j] = "" /\ j \in Renamed

\* C8: in dry-run mode no rename is executed and the files on disk never
\* change, while every accepted receipt has a reported name and is counted
\* as processed.
C8_DryRunLeavesDiskAlone ==
  dry_run =>
    /\ fs = fs0
    /\ \A i \in Ids : calls[i].rename = 0
    /\ \A i \in Ids :
         (pc[i] = "done" /\ Named(i) /\ ~Declined(i)) => Truthy(result[i].new_name)
    /\ mainpc = "returned" =>
         returned[1] = Cardinality({i \in Ids : Named(i) /\ ~Declined(i)})

\* a dry run with two workers reported a name for two receipts
C8_Witness ==
  /\ dry_run
  /\ workers = 2
  /\ mainpc = "returned"
  /\ returned[1] = 2

\* C9: with confirmation the worker count is one whatever was requested:
\* at most one file is being processed, at most one prompt is outstanding,
\* and a file starts only when all files before it are finished.
C9_ConfirmIsSequential ==
  (confirm /\ files # <<>>) =>
    /\ workers = 1
    /\ Cardinality(Busy) <= 1
    /\ Cardinality({i \in Ids : pc[i] = "prompt"}) <= 1
    /\ \A i, j \in Ids : (i < j /\ pc[j] # "queued") => Terminal(i)

\* two workers were requested, the first file is finished and the second
\* is at its prompt
C9_Witness ==
  /\ confirm
  /\ args_workers = 2
  /\ Len(files) = 2
  /\ pc[1] = "done"
  /\ pc[2] = "prompt"

\* C10: a file whose image acquisition returned nothing fails with "failed
\* to read file": no extraction, one acquisition, no name, no rename, one
\* increment of the counter, counted as failed, and no exception.
C10_ReadFailureIsAnOutcome ==
  /\ \A i \in Ids :
       image[i] = None =>
         /\ pc[i] \in {"read_failed", "done"}
         /\ result[i].error = "failed to read file"
         /\ result[i].new_name = None
         /\ result[i].skipped_reason = None
         /\ exception[i] = None
         /\ calls[i].read = 1 /\ calls[i].extract = 0
         /\ calls[i].build = 0 /\ calls[i].rename = 0
         /\ calls[i].inc = (IF pc[i] = "done" THEN 1 ELSE 0)
         /\ files[i] \in fs
  /\ mainpc = "returned" =>
       /\ returned[3] = Cardinality({i \in Ids : Truthy(result[i].error)})
       /\ returned[3] >= Cardinality({i \in Ids : image[i] = None})

\* one file could not be read and was counted as failed, another file of
\* the same run was renamed
C10_Witness ==
  /\ mainpc = "returned"
  /\ returned[3] = 1
  /\ \E i \in Ids : image[i] = None /\ calls[i].inc = 1
  /\ Renamed # {}

\* C11: the availability probe is consulted once, before discovery and
\* before any task exists; when it reports failure the run stops there: no
\* file is discovered, read, extracted, prompted for or renamed, nothing is
\* printed or counted, nothing is returned, and the files on disk are those
\* of the start.
C11_UnavailableAborts ==
  /\ probes <= 1
  /\ probes = 0 <=> mainpc = "check"
  /\ probes = 0 => (files = <<>> /\ pc = <<>> /\ fs = fs0)
  /\ ~available =>
       /\ mainpc \in {"check", "exited"}
       /\ files = <<>> /\ pc = <<>> /\ calls = <<>>
       /\ printed = <<>> /\ counter = 0
       /\ results = <<>> /\ returned = <<>>
       /\ fs = fs0

\* the probe failed over a directory that holds supported files, and the
\* run exited
C11_Witness ==
  /\ ~available
  /\ probes = 1
  /\ mainpc = "exited"
  /\ discover_files(fs) # <<>>

\* a call of the function alone has returned
Called(op) == fn_op = op /\ fn_out # <<>>

\* C12: execute_rename renames only when the parent of the resolved
\* destination is the resolved parent of the source; a new_name that
\* resolves outside that directory gets the path-traversal error, the
\* source stays in place and the files on disk are unchanged
C12_TraversalRejected ==
  Called("execute_rename") =>
    LET directory == parent(fn_in.source)
        destination == resolve(joinpath[directory, fn_in.new_name])
        inside == parent(destination) = resolve(directory)
        out == fn_out[1]
    IN /\ out.files # fn_in.files => inside
       /\ out.files # fn_in.files =>
            /\ out.error = None
            /\ out.files = (fn_in.files \ {fn_in.source}) \cup {destination}
            /\ parent(destination) = directory
       /\ ~inside =>
            /\ out.error = ValueError
            /\ out.files = fn_in.files
            /\ fn_in.source \in out.files
       /\ out.error = ValueError => ~inside

C12_Witness ==
  /\ Called("execute_rename")
  /\ fn_in.new_name = "../malicious.pdf"
  /\ fn_in.source = Root \o <<"old.pdf">>
  /\ fn_out[1].error = ValueError
  /\ fn_out[1].files = fn_in.files

\* the directory has an entry of this name, a file or a directory
Entry(in, name) ==
  joinpath[in.directory, name] \in in.files \cup Dirs

\* C13: resolve_conflict returns the name unchanged when the directory has
\* no entry of that name; otherwise the name with _n before its extension,
\* n the smallest of 1 .. 1000 whose name is absent; what it returns is
\* never the name of an entry; it raises when the name and every one of
\* its 1000 suffixed names exist
C13_FirstFreeName ==
  Called("resolve_conflict") =>
    LET name == fn_in.filename
        out == fn_out[1]
        free == {n \in 1..MAX_CONFLICT_ATTEMPTS : ~Entry(fn_in, Suffixed(name, n))}
    IN /\ ~Entry(fn_in, name) => out = name
       /\ (Entry(fn_in, name) /\ free # {}) =>
            \E n \in free : /\ out = Suffixed(name, n)
                             /\ \A m \in free : n <= m
       /\ out # RuntimeError => ~Entry(fn_in, out)
       /\ out = RuntimeError <=> (Entry(fn_in, name) /\ free = {})

C13_Witness ==
  /\ Called("resolve_conflict")
  /\ fn_in.filename = "test.pdf"
  /\ fn_in.files = Chain("test.pdf", 3) \ {Root \o <<"test_2.pdf">>}
  /\ fn_out[1] = "test_2.pdf"

\* C14: the name generate_new_name builds from a record from_json returned
\* and the extension of a file is a single path component: it has no "/"
\* and no ".." segment, and execute_rename does not reject it
C14_NameIsOneComponent ==
  Called("generate_new_name") =>
    LET name == fn_out[1]
        source == Root \o <<"old" \o fn_in.original_ext>>
    IN /\ IndexOf["/", name] = 0
       /\ \A k \in DOMAIN parts_of[name, ""] : parts_of[name, ""][k] # ".."
       /\ execute_rename({source}, source, name).error # ValueError

\* C15: from_json is total: for every raw response text, a text that is
\* valid JSON but not an object included, it returns a record and raises
\* nothing
C15_ParseIsTotal ==
  Called("from_json") => (fn_out[1].error = None /\ Len(fn_out[1].data) = 1)

\* neither the matched text nor the whole response decodes as an object
NoObject(text) ==
  LET data == json_loads(text_to_parse(text, search_object(text)))
  IN ~data.ok \/ data.kind # "object"

\* C16: for every raw response text from which no JSON object can be
\* recovered, from_json returns the sentinel record: is_medical_receipt
\* false, date, provider, patient and amount absent, currency USD
C16_NoObjectGivesSentinel ==
  (Called("from_json") /\ NoObject(fn_in)) =>
    fn_out[1] = [error |-> None,
                 data |-> << [date |-> None, provider |-> None, patient |-> None,
                              amount |-> <<>>, currency |-> "USD",
                              is_medical_receipt |-> FALSE] >>]

\* C17: an amount given as a string that holds a numeral between currency
\* symbols, words, punctuation or spaces parses to that numeral; an amount
\* string that holds no numeral parses to an absent amount
C17_AmountIsTheNumeral ==
  Called("amount") =>
    /\ fn_out[1].error = None
    /\ fn_out[1].data[1].amount =
         (IF fn_in.numeral = "" THEN <<>> ELSE <<hundredths(fn_in.numeral)>>)

\* C18: sanitize returns UNKNOWN for an absent or empty input; its result
\* is never empty, has at most 30 characters and only letters, digits and
\* underscores; an input with no such character gives UNKNOWN
C18_SanitizedField ==
  Called("sanitize") =>
    LET out == fn_out[1]
    IN /\ fn_in \in {None, ""} => out = "UNKNOWN"
       /\ out # ""
       /\ Len(out) <= 30
       /\ \A k \in 1..Len(out) : IsWord(Char(out, k))
       /\ (fn_in # None /\ \A k \in 1..Len(fn_in) : ~IsWord(Char(fn_in, k)))
            => out = "UNKNOWN"

C18_Witness ==
  /\ Called("sanitize")
  /\ fn_in = Repeat("A", 50)
  /\ fn_out[1] = "A" \o Repeat("a", 29)

\* the run of process_files has ended, by a return or by an exception
Ended == mainpc \in {"returned", "raised"}

\* C19: the completion counter is incremented once per discovered file, in
\* the critical section that prints the file's progress line: the k-th
\* progress line printed carries the index k, no file has two of them, and
\* when the run ends every discovered file has been counted once and the
\* counter is the number of discovered files
C19_EveryFileCountedOnce ==
  /\ counter = Len(printed)
  /\ \A k, m \in DOMAIN printed : printed[k] = printed[m] => k = m
  /\ \A i \in Ids : calls[i].inc = Cardinality({k \in DOMAIN printed : printed[k] = i})
  /\ Ended => /\ \A i \in Ids : calls[i].inc = 1
              /\ counter = Len(files)

\* C20: the image acquisition and the extraction run without print_lock:
\* with at least two workers, while the first file's worker blocks for
\* ever in one of them, every other discovered file reaches its terminal
\* outcome
C20_HangDoesNotBlock ==
  \A i \in 2..MaxFiles :
    (mainpc = "collect" /\ workers >= 2 /\ i \in Ids) ~> (i \in Ids /\ Terminal(i))

C20_Witness ==
  /\ workers >= 2
  /\ Len(files) >= 2
  /\ pc[1] = "extract"
  /\ pc[2] = "done"
  /\ calls[2].inc = 1
  /\ print_lock = 0

\* the files whose worker is inside a `with print_lock` block
Inside == {i \in Ids : pc[i] \in {"prompt", "rename"}}

\* the worker of file i stands before a `with print_lock` statement
Waiting(i) == pc[i] \in {"read_failed", "skip", "name"}

\* file i went into the naming critical section and left it by the exit
\* named: the end of the block, the return after a decline, or an error
LeftBy(i, exit) ==
  /\ Terminal(i)
  /\ calls[i].inc = 1
  /\ calls[i].probe = 1
  /\ CASE exit = "end" -> pc[i] = "done" /\ ~Declined(i)
       [] exit = "decline" -> Declined(i)
       [] exit = "prompt error" -> exception[i] = "EOFError"
       [] exit = "rename error" -> calls[i].rename = 1 /\ exception[i] = ValueError

\* at most one worker is inside a critical section, that worker is the
\* holder of the lock, and the lock is free when no worker is inside one
LockDiscipline ==
  /\ Cardinality(Inside) <= 1
  /\ print_lock = 0 <=> Inside = {}
  /\ print_lock # 0 => Inside = {print_lock}

NameAtStart(i) == resolve_conflict(fs0, parent(files[i]), Built(i))

\* C22: in dry-run mode the name reported for a file is a function of the
\* record of the file, its extension and the directory contents at the
\* start of the run, whatever the worker count and the interleaving; and
\* the run leaves behind the directory it started from, with the same
\* files to discover, so that a second dry run with the same extraction
\* results reports the same names.
C22_DryRunNameIsDetermined ==
  dry_run =>
    /\ \A i \in Ids : result[i].new_name # None => result[i].new_name = NameAtStart(i)
    /\ mainpc \in {"collect", "returned", "raised"} => discover_files(fs) = files

\* a dry run with two workers reported one name for two receipts of one
\* directory, and a suffixed name where the candidate was on disk
C22_Witness ==
  /\ dry_run
  /\ workers = 2
  /\ \E i, j \in Ids :
       /\ i # j
       /\ pc[i] = "done" /\ pc[j] = "done"
       /\ parent(files[i]) = parent(files[j])
       /\ result[i].new_name # None
       /\ result[i].new_name = result[j].new_name
       /\ result[i].new_name # Built(i)

\* the name file i has on disk when the run starts is the name its record
\* builds, as after an earlier live run with the same extraction result
AlreadyNamed(i) == Named(i) /\ name_of[files[i]] = Built(i)

\* C23 as stated: a live run leaves alone a file whose current name is
\* the candidate name built from its record.
C23_LiveRunIsAFixedPoint ==
  ~dry_run =>
    \A i \in Ids :
      (AlreadyNamed(i) /\ pc[i] = "done") => renamed_to[i] \in {<<>>, <<files[i]>>}

\* C23: a file whose current name is the candidate name built from its
\* record is itself the conflict that resolve_conflict finds: the name
\* resolved for it is a suffixed name stem_n.ext, never its current name,
\* and a live run that is not declined renames the file to that name.
C23_OwnNameIsAConflict ==
  \A i \in Ids :
    (AlreadyNamed(i) /\ result[i].new_name # None) =>
      /\ result[i].new_name # name_of[files[i]]
      /\ \E n \in 1..MaxFiles : result[i].new_name = Suffixed(Built(i), n)
      /\ (~dry_run /\ pc[i] = "done") =>
           renamed_to[i] = <<joinpath[parent(files[i]), result[i].new_name]>>

\* a live run processed a file that had the name its record builds, and
\* renamed it
C23_Witness ==
  /\ ~dry_run
  /\ \E i \in Ids :
       /\ AlreadyNamed(i)
       /\ pc[i] = "done"
       /\ renamed_to[i] # <<>>
       /\ files[i] \notin fs

====
